---- MODULE Spec2Model ----
(***************************************************************************)
(* Model of ebay_uk_listing.py: the command-line pipeline                  *)
(*   parse arguments -> load_payload -> parse_product_data -> renderer ->  *)
(*   print                                                                 *)
(* together with the pure functions it is built from.                      *)
(*                                                                         *)
(* Python values carry their dynamic type in a tag "t".  A Python str is   *)
(* a sequence of characters.  Text the program itself supplies (labels,    *)
(* placeholders, boilerplate, markup) and a few example values are written *)
(* as whole tokens, one token standing for its run of characters.  Payload *)
(* text holds the blank as its only whitespace and no newline, quote,      *)
(* backslash or markup token: values are interpolated unescaped, so such   *)
(* text would change the structure of the document itself.                 *)
(***************************************************************************)
EXTENDS Integers, Sequences, FiniteSets, TLC

VARIABLES argv, pc, args, opened, payload, product, calls, output, stdout,
          stderr, exit

vars == <<argv, pc, args, opened, payload, product, calls, output, stdout,
          stderr, exit>>

(***************************************************************************)
(* Bounds of the model.                                                    *)
(***************************************************************************)
MaxLen == 2
MaxList == 2
MaxKeys == 2

(***************************************************************************)
(* Python values.                                                          *)
(***************************************************************************)
PyNone == [t |-> "NoneType"]
PyBool(b) == [t |-> "bool", b |-> b]
PyInt(n) == [t |-> "int", n |-> n]
PyStr(s) == [t |-> "str", s |-> s]
PyList(items) == [t |-> "list", items |-> items]
\* a dict as the sequence of its (key, value) items, in insertion order
PyDict(m) == [t |-> "dict", m |-> m]

Whitespace == {" "}

RECURSIVE Concat(_)
Concat(ss) == IF ss = <<>> THEN <<>> ELSE Head(ss) \o Concat(Tail(ss))

RECURSIVE Join(_, _)
Join(sep, ss) ==
    IF ss = <<>> THEN <<>>
    ELSE IF Len(ss) = 1 THEN Head(ss)
    ELSE Head(ss) \o sep \o Join(sep, Tail(ss))

Map(F(_), s) == [i \in 1..Len(s) |-> F(s[i])]

Digits == <<"0", "1", "2", "3", "4", "5", "6", "7", "8", "9">>

RECURSIVE Decimal(_)
Decimal(n) ==
    IF n < 0 THEN <<"-">> \o Decimal(0 - n)
    ELSE IF n < 10 THEN <<Digits[n + 1]>>
    ELSE Decimal(n \div 10) \o Decimal(n % 10)

\* repr() and str() of a value; they differ on str only
RECURSIVE Repr(_)
Repr(v) ==
    CASE v.t = "NoneType" -> <<"N", "o", "n", "e">>
      [] v.t = "bool" -> IF v.b THEN <<"T", "r", "u", "e">>
                                ELSE <<"F", "a", "l", "s", "e">>
      [] v.t = "int" -> Decimal(v.n)
      [] v.t = "str" -> <<"'">> \o v.s \o <<"'">>
      [] v.t = "list" ->
            <<"[">> \o Join(<<",", " ">>, [i \in 1..Len(v.items) |-> Repr(v.items[i])]) \o <<"]">>
      [] v.t = "dict" ->
            <<"{">> \o Join(<<",", " ">>,
                           [i \in 1..Len(v.m) |->
                               Repr(PyStr(v.m[i][1])) \o <<":", " ">> \o Repr(v.m[i][2])])
                  \o <<"}">>

str(v) == IF v.t = "str" THEN v ELSE PyStr(Repr(v))

\* bool(v): Python truthiness
Truthy(v) ==
    CASE v.t = "NoneType" -> FALSE
      [] v.t = "bool" -> v.b
      [] v.t = "int" -> v.n # 0
      [] v.t = "str" -> v.s # <<>>
      [] v.t = "list" -> v.items # <<>>
      [] v.t = "dict" -> v.m # <<>>

RECURSIVE LStrip(_)
LStrip(s) == IF s # <<>> /\ Head(s) \in Whitespace THEN LStrip(Tail(s)) ELSE s

RECURSIVE RStrip(_)
RStrip(s) ==
    IF s # <<>> /\ s[Len(s)] \in Whitespace THEN RStrip(SubSeq(s, 1, Len(s) - 1)) ELSE s

\* str.strip()
strip(v) == PyStr(RStrip(LStrip(v.s)))

\* str.split(sep) for a one-character separator: the list of pieces
RECURSIVE SplitChars(_, _, _)
SplitChars(s, sep, cur) ==
    IF s = <<>> THEN <<PyStr(cur)>>
    ELSE IF Head(s) = sep THEN <<PyStr(cur)>> \o SplitChars(Tail(s), sep, <<>>)
    ELSE SplitChars(Tail(s), sep, Append(cur, Head(s)))

split(v, sep) == PyList(SplitChars(v.s, sep, <<>>))

\* [x for x in xs if bool(x)] on a sequence of values
KeepTruthy(xs) == SelectSeq(xs, Truthy)

\* mutant: str(item) without .strip()
StrNoStrip(v) == str(v)

StrStrip(v) == strip(str(v))

\* mutant: the pieces of a string are filtered but not stripped
_listify_unstripped_pieces(value) ==
    IF value.t = "NoneType" THEN PyList(<<>>)
    ELSE IF value.t = "list" THEN PyList(KeepTruthy(Map(StrStrip, value.items)))
    ELSE IF value.t = "str" THEN PyList(KeepTruthy(split(value, ";").items))
    ELSE PyList(<<StrStrip(value)>>)

_listify(value) ==
    IF value.t = "NoneType" THEN PyList(<<>>)
    ELSE IF value.t = "list" THEN PyList(KeepTruthy(Map(StrStrip, value.items)))
    ELSE IF value.t = "str" THEN PyList(KeepTruthy(Map(strip, split(value, ";").items)))
    ELSE PyList(<<StrStrip(value)>>)

\* key lookup in a dict; a key is a str, here always a one-token name
Has(p, k) == \E i \in 1..Len(p.m) : p.m[i][1] = <<k>>
Lookup(p, k) == p.m[CHOOSE i \in 1..Len(p.m) : p.m[i][1] = <<k>>][2]

\* dict.get(key, default)
Get(p, k, default) == IF Has(p, k) THEN Lookup(p, k) ELSE default

ScalarFields == {"title", "category", "brand", "model", "material", "size",
                 "color", "weight", "moq", "price_range", "notes"}
ListFields == {"features", "package_contents", "images"}
Fields == ScalarFields \cup ListFields

parse_product_data(p) ==
    [title |-> strip(str(Get(p, "title", PyStr(<<>>)))),
     category |-> strip(str(Get(p, "category", PyStr(<<>>)))),
     brand |-> strip(str(Get(p, "brand", PyStr(<<>>)))),
     model |-> strip(str(Get(p, "model", PyStr(<<>>)))),
     material |-> strip(str(Get(p, "material", PyStr(<<>>)))),
     size |-> strip(str(Get(p, "size", PyStr(<<>>)))),
     color |-> strip(str(Get(p, "color", PyStr(<<>>)))),
     weight |-> strip(str(Get(p, "weight", PyStr(<<>>)))),
     features |-> _listify(Get(p, "features", PyNone)),
     package_contents |-> _listify(Get(p, "package_contents", PyNone)),
     moq |-> strip(str(Get(p, "moq", PyStr(<<>>)))),
     price_range |-> strip(str(Get(p, "price_range", PyStr(<<>>)))),
     images |-> _listify(Get(p, "images", PyNone)),
     notes |-> strip(str(Get(p, "notes", PyStr(<<>>))))]

(***************************************************************************)
(* Renderers.  A document is a str; "\n" is the newline character.         *)
(***************************************************************************)
NL == <<"\n">>

\* x or y
Or(x, y) == IF Truthy(x) THEN x ELSE y

\* mutant: Size and Colour change places
SpecRowsSwapped(p) ==
    << <<PyStr(<<"Category">>), p.category>>,
       <<PyStr(<<"Brand">>), p.brand>>,
       <<PyStr(<<"Model">>), p.model>>,
       <<PyStr(<<"Material">>), p.material>>,
       <<PyStr(<<"Colour">>), p.color>>,
       <<PyStr(<<"Size">>), p.size>>,
       <<PyStr(<<"Weight">>), p.weight>>,
       <<PyStr(<<"MOQ">>), p.moq>>,
       <<PyStr(<<"1688 Price Range">>), p.price_range>> >>

\* the rows list of _spec_table
SpecRows(p) ==
    << <<PyStr(<<"Category">>), p.category>>,
       <<PyStr(<<"Brand">>), p.brand>>,
       <<PyStr(<<"Model">>), p.model>>,
       <<PyStr(<<"Material">>), p.material>>,
       <<PyStr(<<"Size">>), p.size>>,
       <<PyStr(<<"Colour">>), p.color>>,
       <<PyStr(<<"Weight">>), p.weight>>,
       <<PyStr(<<"MOQ">>), p.moq>>,
       <<PyStr(<<"1688 Price Range">>), p.price_range>> >>

ValueTruthy(row) == Truthy(row[2])

MdBullet(item) == <<"- ">> \o item.s

_bullet_list(items) == PyStr(Join(NL, Map(MdBullet, KeepTruthy(items.items))))

MdRow(row) == <<"| ">> \o row[1].s \o <<" | ">> \o row[2].s \o <<" |">>

_spec_table(p) == PyStr(Join(NL, Map(MdRow, SelectSeq(SpecRows(p), ValueTruthy))))

\* mutant: the notes heading is written whether or not there are notes
MdNotesUnconditional(p) ==
    PyStr(NL \o NL \o <<"**Notes from supplier**">> \o NL \o strip(p.notes).s)

MdNotes(p) ==
    IF Truthy(strip(p.notes))
    THEN PyStr(NL \o NL \o <<"**Notes from supplier**">> \o NL \o strip(p.notes).s)
    ELSE strip(p.notes)

\* mutant: the title without its placeholder
MdTitleNoPlaceholder(p) == p.title

\* {product.title or 'Product Title'}
MdTitle(p) == Or(p.title, PyStr(<<"Product Title">>))

generate_markdown(p, today) ==
    PyStr(Concat(<<
        <<"# ">>, MdTitle(p).s, NL, NL,
        <<"**UK-friendly highlights**">>, NL,
        Or(_bullet_list(p.features), PyStr(<<"- ", "Please see item specifics.">>)).s, NL, NL,
        <<"**What you get**">>, NL,
        Or(_bullet_list(p.package_contents), PyStr(<<"- ", "1 x Item as described">>)).s, NL, NL,
        <<"**Specifications**">>, NL,
        <<"| ", "Field", " | ", "Details", " |">>, NL,
        <<"| ", "---", " | ", "---", " |">>, NL,
        _spec_table(p).s, NL, NL,
        <<"**Shipping & Returns**">>, NL,
        <<"- ", "UK dispatch location: Please update with your fulfilment address.">>, NL,
        <<"- ", "Handling time: Update based on your stock availability.">>, NL,
        <<"- ", "Returns accepted within 30 days (buyer pays return postage unless item is faulty).">>, NL, NL,
        <<"**Compliance reminder**">>, NL,
        <<"- ", "Ensure the item meets UK regulations and include any required safety markings.">>, NL, NL,
        <<"**Last updated**", ": ", today>>, NL,
        MdNotes(p).s, NL >>))

HtmlItem(item) == <<"<li>">> \o item.s \o <<"</li>">>

HtmlItems(items) == PyStr(Concat(Map(HtmlItem, KeepTruthy(items.items))))

HtmlRow(row) ==
    <<"<tr>", "<th>">> \o row[1].s \o <<"</th>", "<td>">> \o row[2].s \o <<"</td>", "</tr>">>

\* the (label, value) list generate_html loops over
HtmlRowList(p) ==
    << <<PyStr(<<"Category">>), p.category>>,
       <<PyStr(<<"Brand">>), p.brand>>,
       <<PyStr(<<"Model">>), p.model>>,
       <<PyStr(<<"Material">>), p.material>>,
       <<PyStr(<<"Size">>), p.size>>,
       <<PyStr(<<"Colour">>), p.color>>,
       <<PyStr(<<"Weight">>), p.weight>>,
       <<PyStr(<<"MOQ">>), p.moq>>,
       <<PyStr(<<"1688 Price Range">>), p.price_range>> >>

HtmlSpecRows(p) == Map(HtmlRow, SelectSeq(HtmlRowList(p), ValueTruthy))

\* mutant: the notes block is written whether or not there are notes
HtmlNotesUnconditional(p) ==
    PyStr(<<"<h3>", "Notes from supplier", "</h3>", "<p>">> \o p.notes.s \o <<"</p>">>)

HtmlNotes(p) ==
    IF Truthy(p.notes)
    THEN PyStr(<<"<h3>", "Notes from supplier", "</h3>", "<p>">> \o p.notes.s \o <<"</p>">>)
    ELSE PyStr(<<>>)

HtmlTitle(p) == Or(p.title, PyStr(<<"Product Title">>))

generate_html(p, today) ==
    PyStr(Concat(<<
        <<"<h1>">>, HtmlTitle(p).s, <<"</h1>">>, NL,
        <<"<h3>", "UK-friendly highlights", "</h3>">>, NL,
        <<"<ul>">>, Or(HtmlItems(p.features),
                       PyStr(<<"<li>", "Please see item specifics.", "</li>">>)).s, <<"</ul>">>, NL,
        <<"<h3>", "What you get", "</h3>">>, NL,
        <<"<ul>">>, Or(HtmlItems(p.package_contents),
                       PyStr(<<"<li>", "1 x Item as described", "</li>">>)).s, <<"</ul>">>, NL,
        <<"<h3>", "Specifications", "</h3>">>, NL,
        <<"<table>">>, NL,
        Concat(HtmlSpecRows(p)), NL,
        <<"</table>">>, NL,
        <<"<h3>", "Shipping &amp; Returns", "</h3>">>, NL,
        <<"<ul>">>, NL,
        <<"  ", "<li>", "UK dispatch location: Please update with your fulfilment address.", "</li>">>, NL,
        <<"  ", "<li>", "Handling time: Update based on your stock availability.", "</li>">>, NL,
        <<"  ", "<li>", "Returns accepted within 30 days (buyer pays return postage unless item is faulty).", "</li>">>, NL,
        <<"</ul>">>, NL,
        <<"<h3>", "Compliance reminder", "</h3>">>, NL,
        <<"<ul>">>, NL,
        <<"  ", "<li>", "Ensure the item meets UK regulations and include any required safety markings.", "</li>">>, NL,
        <<"</ul>">>, NL,
        <<"<p>", "<strong>", "Last updated", "</strong>", ": ", today, "</p>">>, NL,
        HtmlNotes(p).s, NL >>))

(***************************************************************************)
(* Inputs: command lines, and what the input source holds.                 *)
(***************************************************************************)
Nil == [t |-> "unset"]
Omitted == "<omitted>"

\* argparse: input is nargs="?", --format has choices and a default, and
\* -h/--help is added by ArgumentParser's default add_help.  Arguments are
\* consumed left to right: help says whether -h is absent, precedes --format
\* ("first") or follows it ("last").
Argvs == [input : {PyNone, PyStr(<<"in.json">>)},
          format : {Omitted, "markdown", "html", "pdf"},
          help : {"none", "first", "last"}]

Choices == {"markdown", "html"}
DefaultFormat == "markdown"

Chars == {"a", " ", ";"}
Strs(n) == UNION {[1..k -> Chars] : k \in 0..n}
ElemVals == {PyStr(<<"a", " ">>), PyStr(<<" ">>), PyInt(0)}
Lists(n) == UNION {[1..k -> ElemVals] : k \in 0..n}

ExampleVals ==
    {PyStr(<<"a", ";", " ", "b", " ", ";", " ", ";", "c">>),
     PyStr(<<"A", "c", "m", "e">>),
     PyList(<<PyStr(<<"a", " ">>), PyStr(<<>>), PyStr(<<" ", "b">>)>>),
     PyList(<<PyNone, PyStr(<<"a">>)>>)}

ScalarVals ==
    {PyNone, PyBool(TRUE), PyBool(FALSE), PyInt(0), PyInt(5), PyInt(0 - 12),
     PyDict(<<>>), PyDict(<< <<(<<"k">>), PyInt(5)>> >>)}

RichVals ==
    {PyStr(s) : s \in Strs(MaxLen)} \cup {PyList(l) : l \in Lists(MaxList)}
        \cup ExampleVals \cup ScalarVals

KeyOrder == <<"title", "category", "brand", "model", "material", "size", "color",
              "weight", "features", "package_contents", "moq", "price_range",
              "images", "notes", "sku">>
PayloadKeys == {KeyOrder[i] : i \in 1..Len(KeyOrder)}

\* the dict holding f's keys, in KeyOrder
DictOf(f) ==
    LET Present(k) == k \in DOMAIN f
        ks == SelectSeq(KeyOrder, Present)
    IN  PyDict([i \in 1..Len(ks) |-> <<(<<ks[i]>>), f[ks[i]]>>])

\* up to MaxKeys keys, each holding its own name as text
PresencePayloads ==
    {DictOf([k \in S |-> PyStr(<<k>>)]) :
        S \in {T \in SUBSET PayloadKeys : Cardinality(T) <= MaxKeys}}

\* one key holding any value
FocusPayloads == {DictOf([k \in {key} |-> v]) : key \in Fields, v \in RichVals}

EndToEndPayload ==
    PyDict(<< <<(<<"title">>), PyStr(<<"Steel Water Bottle">>)>>,
              <<(<<"brand">>), PyStr(<<"A", "c", "m", "e">>)>>,
              <<(<<"features">>), PyList(<<PyStr(<<"Leak-proof">>), PyStr(<<"500ml">>)>>)>>,
              <<(<<"moq">>), PyStr(<<"100 pcs">>)>> >>)

FullPayload == DictOf([k \in PayloadKeys |-> PyStr(<<k>>)])

BlankPayload == DictOf([k \in PayloadKeys |-> PyStr(<<" ">>)])

Payloads == PresencePayloads \cup FocusPayloads
                \cup {EndToEndPayload, FullPayload, BlankPayload}

\* valid JSON whose top-level value is no object
NonObjects == {PyList(<<>>), PyList(<<PyInt(5)>>), PyStr(<<"a">>), PyInt(5), PyNone,
               PyBool(TRUE)}

InvalidJSON == [t |-> "invalid"]
Unreadable == [t |-> "unreadable"]

\* what json.load can meet in the source
Contents == Payloads \cup NonObjects \cup {InvalidJSON}

Dates == {"2024-02-29", "2025-12-31"}

(***************************************************************************)
(* main()                                                                  *)
(***************************************************************************)
Init ==
    /\ argv \in Argvs
    /\ pc = "start"
    /\ args = Nil
    /\ opened = "none"
    /\ payload = Nil
    /\ product = Nil
    /\ calls = <<>>
    /\ output = Nil
    /\ stdout = <<>>
    /\ stderr = <<>>
    /\ exit = PyNone

\* an uncaught exception: traceback on stderr, exit status 1
Raise(exc) ==
    /\ pc' = "done"
    /\ stderr' = Append(stderr, <<"Traceback", exc>>)
    /\ exit' = PyInt(1)

\* parser.parse_args(): the first of -h and a bad --format value decides
ParseArgs ==
    /\ pc = "start"
    /\ \/ /\ \/ argv.help = "first"
             \/ argv.help = "last" /\ argv.format \in Choices \cup {Omitted}
          /\ stdout' = Append(stdout, [what |-> "help"])
          /\ exit' = PyInt(0)
          /\ pc' = "done"
          /\ UNCHANGED <<args, stderr>>
       \/ /\ argv.help # "first"
          /\ argv.format \notin Choices \cup {Omitted}
          /\ stderr' = Append(stderr, <<"usage", "invalid choice">>)
          /\ exit' = PyInt(2)
          /\ pc' = "done"
          /\ UNCHANGED <<args, stdout>>
       \/ /\ argv.help = "none"
          /\ argv.format \in Choices \cup {Omitted}
          /\ args' = [input |-> argv.input,
                      format |-> IF argv.format = Omitted THEN DefaultFormat
                                 ELSE argv.format]
          /\ pc' = "args"
          /\ UNCHANGED <<stdout, stderr, exit>>
    /\ UNCHANGED <<argv, opened, payload, product, calls, output>>

\* json.load(handle): the parsed value, or JSONDecodeError
JsonLoad(content) ==
    IF content = InvalidJSON
    THEN Raise("JSONDecodeError") /\ UNCHANGED payload
    ELSE /\ payload' = content
         /\ pc' = "loaded"
         /\ UNCHANGED <<stderr, exit>>

\* payload = load_payload(args.input)
load_payload ==
    /\ pc = "args"
    /\ IF Truthy(args.input)
       THEN \E found \in Contents \cup {Unreadable} :
                IF found = Unreadable
                THEN /\ Raise("OSError")
                     /\ opened' = "open failed"
                     /\ UNCHANGED payload
                ELSE /\ opened' = "file"
                     /\ JsonLoad(found)
       ELSE \E found \in Contents :
                /\ opened' = "stdin"
                /\ JsonLoad(found)
    /\ UNCHANGED <<argv, args, product, calls, output, stdout>>

\* product = parse_product_data(payload); payload.get exists on a dict only
Normalize ==
    /\ pc = "loaded"
    /\ IF payload.t = "dict"
       THEN /\ product' = parse_product_data(payload)
            /\ pc' = "normalized"
            /\ UNCHANGED <<stderr, exit>>
       ELSE /\ Raise("AttributeError")
            /\ UNCHANGED product
    /\ UNCHANGED <<argv, args, opened, payload, calls, output, stdout>>

\* mutant: the document is written to stdout as soon as it is rendered
RenderAndWrite ==
    /\ pc = "normalized"
    /\ \E today \in Dates :
          IF args.format = "html"
          THEN /\ output' = generate_html(product, today)
               /\ calls' = Append(calls, [renderer |-> "generate_html", product |-> product])
          ELSE /\ output' = generate_markdown(product, today)
               /\ calls' = Append(calls, [renderer |-> "generate_markdown", product |-> product])
    /\ stdout' = Append(stdout, [what |-> "document", text |-> output'.s \o NL])
    /\ pc' = "rendered"
    /\ UNCHANGED <<argv, args, opened, payload, product, stderr, exit>>

\* mutant: the format is ignored
RenderAlwaysMarkdown ==
    /\ pc = "normalized"
    /\ \E today \in Dates :
          /\ output' = generate_markdown(product, today)
          /\ calls' = Append(calls, [renderer |-> "generate_markdown", product |-> product])
    /\ pc' = "rendered"
    /\ UNCHANGED <<argv, args, opened, payload, product, stdout, stderr, exit>>

\* the renderer chosen by args.format
Render ==
    /\ pc = "normalized"
    /\ \E today \in Dates :
          IF args.format = "html"
          THEN /\ output' = generate_html(product, today)
               /\ calls' = Append(calls, [renderer |-> "generate_html", product |-> product])
          ELSE /\ output' = generate_markdown(product, today)
               /\ calls' = Append(calls, [renderer |-> "generate_markdown", product |-> product])
    /\ pc' = "rendered"
    /\ UNCHANGED <<argv, args, opened, payload, product, stdout, stderr, exit>>

\* print(output); return 0
PrintOutput ==
    /\ pc = "rendered"
    /\ stdout' = Append(stdout, [what |-> "document", text |-> output.s \o NL])
    /\ exit' = PyInt(0)
    /\ pc' = "done"
    /\ UNCHANGED <<argv, args, opened, payload, product, calls, output, stderr>>

Next == ParseArgs \/ load_payload \/ Normalize \/ Render \/ PrintOutput

Spec == Init /\ [][Next]_vars

(***************************************************************************)
(* Reading a rendered document back: what a reader of the text finds in    *)
(* it.  These use only the text, never the record it was rendered from.    *)
(***************************************************************************)
Indices(s) == [i \in 1..Len(s) |-> i]

\* the lines of a text: the stretches between consecutive newlines
CutsOf(text, sep) ==
    LET IsSep(i) == text[i] = sep
    IN  <<0>> \o SelectSeq(Indices(text), IsSep) \o <<Len(text) + 1>>

PiecesOf(text, sep) ==
    LET cuts == CutsOf(text, sep)
    IN  [k \in 1..(Len(cuts) - 1) |-> SubSeq(text, cuts[k] + 1, cuts[k + 1] - 1)]

LinesOf(doc) == PiecesOf(doc.s, "\n")

StartsWith(line, tok) == line # <<>> /\ line[1] = tok

\* first index of a line equal to l, 0 when there is none
IndexOfLine(lines, l) ==
    LET Is(i) == lines[i] = l
        at == SelectSeq(Indices(lines), Is)
    IN  IF at = <<>> THEN 0 ELSE at[1]

\* the run of consecutive lines from index i on that start with tok
RunFrom(lines, i, tok) ==
    LET last == CHOOSE j \in (i - 1)..Len(lines) :
                    /\ \A k \in i..j : StartsWith(lines[k], tok)
                    /\ (j = Len(lines) \/ ~StartsWith(lines[j + 1], tok))
    IN  SubSeq(lines, i, last)

\* position of the first tok in line at or after index from, 0 when none
FindTok(line, tok, from) ==
    LET Is(i) == i >= from /\ line[i] = tok
        at == SelectSeq(Indices(line), Is)
    IN  IF at = <<>> THEN 0 ELSE at[1]

\* the stretches of line enclosed by an open token and the next close token
RECURSIVE Enclosed(_, _, _, _)
Enclosed(line, open, close, from) ==
    LET o == FindTok(line, open, from)
        c == IF o = 0 THEN 0 ELSE FindTok(line, close, o + 1)
    IN  IF o = 0 \/ c = 0 THEN <<>>
        ELSE <<SubSeq(line, o + 1, c - 1)>> \o Enclosed(line, open, close, c + 1)

DropFirst(line) == Tail(line)

\* markdown: "| label | value |"
MdRowCells(line) ==
    LET mid == FindTok(line, " | ", 2)
    IN  <<SubSeq(line, 2, mid - 1), SubSeq(line, mid + 1, Len(line) - 1)>>

MdBulletsUnder(doc, heading) ==
    LET lines == LinesOf(doc)
        h == IndexOfLine(lines, <<heading>>)
    IN  IF h = 0 THEN <<>> ELSE Map(DropFirst, RunFrom(lines, h + 1, "- "))

MdTitleOf(doc) ==
    LET first == LinesOf(doc)[1]
    IN  IF StartsWith(first, "# ") THEN <<Tail(first)>> ELSE <<>>

MdRowsOf(doc) ==
    LET lines == LinesOf(doc)
        sep == IndexOfLine(lines, <<"| ", "---", " | ", "---", " |">>)
    IN  IF sep = 0 THEN <<>> ELSE Map(MdRowCells, RunFrom(lines, sep + 1, "| "))

MdNotesOf(doc) ==
    LET lines == LinesOf(doc)
        n == IndexOfLine(lines, <<"**Notes from supplier**">>)
    IN  IF n = 0 THEN <<>> ELSE <<lines[n + 1]>>

HtmlListUnder(doc, heading) ==
    LET lines == LinesOf(doc)
        h == IndexOfLine(lines, <<"<h3>", heading, "</h3>">>)
    IN  IF h = 0 THEN <<>> ELSE Enclosed(lines[h + 1], "<li>", "</li>", 1)

HtmlTitleOf(doc) == Enclosed(LinesOf(doc)[1], "<h1>", "</h1>", 1)

HtmlRowsOf(doc) ==
    LET lines == LinesOf(doc)
        t == IndexOfLine(lines, <<"<table>">>)
        labels == Enclosed(lines[t + 1], "<th>", "</th>", 1)
        values == Enclosed(lines[t + 1], "<td>", "</td>", 1)
    IN  IF t = 0 THEN <<>>
        ELSE [i \in 1..Len(labels) |->
                 <<labels[i], IF i <= Len(values) THEN values[i] ELSE <<>> >>]

HtmlNotesOf(doc) ==
    LET lines == LinesOf(doc)
        HasNotes(i) == StartsWith(lines[i], "<h3>") /\ Len(lines[i]) > 3
                          /\ lines[i][2] = "Notes from supplier"
        ns == SelectSeq(Indices(lines), HasNotes)
    IN  IF ns = <<>> THEN <<>> ELSE Enclosed(lines[ns[1]], "<p>", "</p>", 1)

\* what a document of the given format says
TitleOf(doc, format) == IF format = "html" THEN HtmlTitleOf(doc) ELSE MdTitleOf(doc)
FeaturesOf(doc, format) ==
    IF format = "html" THEN HtmlListUnder(doc, "UK-friendly highlights")
    ELSE MdBulletsUnder(doc, "**UK-friendly highlights**")
PackageOf(doc, format) ==
    IF format = "html" THEN HtmlListUnder(doc, "What you get")
    ELSE MdBulletsUnder(doc, "**What you get**")
RowsOf(doc, format) == IF format = "html" THEN HtmlRowsOf(doc) ELSE MdRowsOf(doc)
NotesOf(doc, format) == IF format = "html" THEN HtmlNotesOf(doc) ELSE MdNotesOf(doc)

Read(doc, format) ==
    [title |-> TitleOf(doc, format),
     features |-> FeaturesOf(doc, format),
     package |-> PackageOf(doc, format),
     rows |-> RowsOf(doc, format),
     notes |-> NotesOf(doc, format)]

Tokens(doc) == {doc.s[i] : i \in 1..Len(doc.s)}

(***************************************************************************)
(* What the specification says, stated without the program's functions.    *)
(***************************************************************************)
Blank(s, from, to) == \A k \in from..to : s[k] \in Whitespace

\* r is s with its leading and trailing whitespace removed
IsTrimOf(r, s) ==
    \E i \in 0..Len(s) : \E j \in 0..(Len(s) - i) :
        /\ r = SubSeq(s, i + 1, Len(s) - j)
        /\ Blank(s, 1, i)
        /\ Blank(s, Len(s) - j + 1, Len(s))
        /\ (r = <<>> \/ (r[1] \notin Whitespace /\ r[Len(r)] \notin Whitespace))

TrimOf(s) ==
    CHOOSE r \in {SubSeq(s, i, j) : i \in 1..(Len(s) + 1), j \in 0..Len(s)} : IsTrimOf(r, s)

\* the texts trimmed, the empty ones dropped, the order kept
CleanSeq(texts) ==
    LET NonEmpty(i) == TrimOf(texts[i]) # <<>>
        keep == SelectSeq(Indices(texts), NonEmpty)
    IN  [k \in 1..Len(keep) |-> PyStr(TrimOf(texts[keep[k]]))]

AbsentOrNull(p, k) == ~Has(p, k) \/ Lookup(p, k) = PyNone

ExpectedScalar(p, k) ==
    IF AbsentOrNull(p, k) THEN PyStr(<<>>) ELSE PyStr(TrimOf(str(Lookup(p, k)).s))

ExpectedList(p, k) ==
    IF AbsentOrNull(p, k) THEN PyList(<<>>)
    ELSE LET v == Lookup(p, k)
         IN  IF v.t = "list" THEN PyList(CleanSeq([i \in 1..Len(v.items) |-> str(v.items[i]).s]))
             ELSE IF v.t = "str" THEN PyList(CleanSeq(PiecesOf(v.s, ";")))
             ELSE PyList(<<PyStr(TrimOf(str(v).s))>>)

Normalized == product # Nil
Rendered == output # Nil

\* C1: after normalization every scalar field is "" when its key is absent or
\* null, and otherwise the stripped string form of the value.
C1_ScalarFieldsDefaulted ==
    Normalized => \A f \in ScalarFields : product[f] = ExpectedScalar(payload, f)

\* C2: every list field follows the four-case list rule (absent/null, sequence,
\* ";"-separated string, other scalar), with the specification's examples.
C2_ListRule ==
    Normalized =>
        /\ \A f \in ListFields : product[f] = ExpectedList(payload, f)
        /\ \A f \in ListFields :
              /\ (Has(payload, f) /\ Lookup(payload, f) = PyStr(<<"a", ";", " ", "b", " ", ";", " ", ";", "c">>))
                    => product[f].items = <<PyStr(<<"a">>), PyStr(<<"b">>), PyStr(<<"c">>)>>
              /\ (Has(payload, f) /\ Lookup(payload, f) = PyList(<<PyStr(<<"a", " ">>), PyStr(<<>>), PyStr(<<" ", "b">>)>>))
                    => product[f].items = <<PyStr(<<"a">>), PyStr(<<"b">>)>>
              /\ (Has(payload, f) /\ Lookup(payload, f) = PyInt(5))
                    => product[f].items = <<PyStr(<<"5">>)>>
              /\ ~Has(payload, f) => product[f].items = <<>>

C2_Witness ==
    /\ Normalized
    /\ Has(payload, "features")
    /\ Lookup(payload, "features") = PyStr(<<"a", ";", " ", "b", " ", ";", " ", ";", "c">>)
    /\ Len(product.features.items) = 3

CleanText(v) ==
    /\ v.t = "str"
    /\ v.s # <<>>
    /\ v.s[1] \notin Whitespace
    /\ v.s[Len(v.s)] \notin Whitespace

\* C3: normalization of an object payload never raises, and its record has a
\* string in every scalar field and a sequence of non-empty, stripped strings
\* in every list field, whatever the types of the payload's values.
C3_NormalizationTotal ==
    /\ (pc \notin {"start", "args", "loaded"} /\ payload # Nil /\ payload.t = "dict")
          => (Normalized /\ "AttributeError" \notin {stderr[i][2] : i \in 1..Len(stderr)})
    /\ Normalized =>
          /\ \A f \in ScalarFields : product[f].t = "str"
          /\ \A f \in ListFields :
                /\ product[f].t = "list"
                /\ \A i \in 1..Len(product[f].items) : CleanText(product[f].items[i])

C3_Witness ==
    /\ Normalized
    /\ Has(payload, "images")
    /\ Lookup(payload, "images") = PyList(<<PyStr(<<" ">>), PyInt(0)>>)
    /\ product.images.items = <<PyStr(<<"0">>)>>

SpecLabels == <<"Category", "Brand", "Model", "Material", "Size", "Colour", "Weight",
                "MOQ", "1688 Price Range">>
SpecFields == <<"category", "brand", "model", "material", "size", "color", "weight",
                "moq", "price_range">>

LabelPos(label) == CHOOSE i \in 0..Len(SpecLabels) :
                       IF \E j \in 1..Len(SpecLabels) : label = <<SpecLabels[j]>>
                       THEN i > 0 /\ label = <<SpecLabels[i]>>
                       ELSE i = 0

RowsFollowRecord(rows, p) ==
    /\ \A i \in 1..Len(SpecLabels) :
          LET hits == {k \in 1..Len(rows) : rows[k][1] = <<SpecLabels[i]>>}
          IN  IF p[SpecFields[i]].s # <<>>
              THEN Cardinality(hits) = 1 /\ \A k \in hits : rows[k][2] = p[SpecFields[i]].s
              ELSE hits = {}
    /\ \A k \in 1..Len(rows) : LabelPos(rows[k][1]) > 0
    /\ \A k1, k2 \in 1..Len(rows) :
          k1 < k2 => LabelPos(rows[k1][1]) < LabelPos(rows[k2][1])

\* C4: in the document of either renderer the specifications table holds one
\* data row for exactly the non-empty fields among the nine, in the fixed order;
\* a payload of only brand=Acme gives the single row Brand/Acme.
C4_SpecRows ==
    Rendered =>
        LET rows == RowsOf(output, args.format)
        IN  /\ RowsFollowRecord(rows, product)
            /\ payload = PyDict(<< <<(<<"brand">>), PyStr(<<"A", "c", "m", "e">>)>> >>)
                  => rows = << <<(<<"Brand">>), <<"A", "c", "m", "e">> >> >>

C4_Witness ==
    /\ Rendered
    /\ args.format = "html"
    /\ Len(RowsOf(output, args.format)) = 2
    /\ product.size.s # <<>>
    /\ product.brand.s # <<>>
    /\ product.category.s = <<>>

\* the date a document carries
DateOf(doc) == CHOOSE d \in Dates : d \in Tokens(doc)

\* C5: for one record (and day) the markdown document and the html document say
\* the same: same title, feature items, package items, specification rows and
\* notes.
C5_FormatsAgree ==
    Rendered =>
        Read(output, args.format) =
            IF args.format = "html"
            THEN Read(generate_markdown(product, DateOf(output)), "markdown")
            ELSE Read(generate_html(product, DateOf(output)), "html")

C5_Witness ==
    /\ Rendered
    /\ args.format = "markdown"
    /\ payload = FullPayload
    /\ Len(MdRowsOf(output)) = 9
    /\ MdNotesOf(output) = << <<"notes">> >>

\* C6: load_payload hands on a payload only when the source could be read and
\* held a JSON object; in every other case it fails.
C6_LoaderRejectsNonObjects ==
    payload # Nil => (payload.t = "dict" /\ opened \in {"file", "stdin"})

Failed == stderr # <<>>
PipelineCompleted == payload # Nil /\ product # Nil /\ output # Nil

\* C7 as claimed: in every run stdout is written at most once and only after
\* load, normalize and render completed; a failing run writes nothing to stdout
\* and ends non-zero; a run that writes ends with status 0.
C7_SingleWriteAfterPipeline ==
    /\ Len(stdout) <= 1
    /\ stdout # <<>> => PipelineCompleted
    /\ (pc = "done" /\ Failed) => (stdout = <<>> /\ exit \notin {PyNone, PyInt(0)})
    /\ (pc = "done" /\ stdout # <<>>) => exit = PyInt(0)

\* C7 amended: the same, except that a help request (-h/--help reached by the
\* argument parser) writes the help text to stdout, once, without opening the
\* input, and ends with status 0; every write of the document comes after load,
\* normalize and render and is the whole rendered text and a newline.
C7_SingleWriteExceptHelp ==
    /\ Len(stdout) <= 1
    /\ \A i \in 1..Len(stdout) :
          IF stdout[i].what = "help"
          THEN argv.help # "none" /\ opened = "none" /\ payload = Nil /\ pc = "done"
          ELSE /\ stdout[i].what = "document"
               /\ PipelineCompleted
               /\ argv.help = "none"
               /\ stdout[i].text = output.s \o NL
    /\ (pc = "done" /\ Failed) => (stdout = <<>> /\ exit \notin {PyNone, PyInt(0)})
    /\ (pc = "done" /\ stdout # <<>>) => exit = PyInt(0)
    /\ (pc = "done" /\ exit = PyInt(0)) => stdout # <<>>

C7_Witness ==
    /\ pc = "done"
    /\ Len(stdout) = 1
    /\ stdout[1].what = "document"
    /\ PipelineCompleted
    /\ exit = PyInt(0)

Accepted == argv.format \in Choices \cup {Omitted}
RendererFor(format) == IF format = "html" THEN "generate_html" ELSE "generate_markdown"

\* C8 as claimed: a --format value other than markdown or html is rejected
\* before the input is opened, with a non-zero status; any other run invokes
\* exactly one renderer, the one its format names, on the record built from
\* the payload.
C8_FormatSelection ==
    /\ ~Accepted =>
          /\ opened = "none" /\ pc \in {"start", "done"}
          /\ pc = "done" => exit \notin {PyNone, PyInt(0)}
    /\ (Accepted /\ pc = "done") =>
          /\ Len(calls) = 1
          /\ calls[1].renderer = RendererFor(argv.format)
          /\ calls[1].product = product
          /\ product = parse_product_data(payload)

\* C8 amended: a --format value other than markdown or html that the parser
\* reaches (no -h before it) is rejected before the input is opened, with a
\* non-zero status; no run invokes more than one renderer; a run that builds a
\* record invokes exactly one, the one its format names (generate_markdown when
\* the option is omitted), on that record; a run that ends before a record is
\* built invokes none.
C8_FormatSelectionWhenRecordBuilt ==
    /\ ~Accepted =>
          /\ opened = "none" /\ pc \in {"start", "done"} /\ calls = <<>>
          /\ (pc = "done" /\ argv.help # "first") => exit \notin {PyNone, PyInt(0)}
    /\ Len(calls) <= 1
    /\ ~Normalized => calls = <<>>
    /\ (Normalized /\ pc = "done") => Len(calls) = 1
    /\ \A i \in 1..Len(calls) :
          /\ calls[i].renderer = RendererFor(argv.format)
          /\ calls[i].product = product
          /\ product = parse_product_data(payload)
          /\ Rendered

C8_Witness ==
    /\ pc = "done"
    /\ argv.format = "html"
    /\ Len(calls) = 1
    /\ calls[1].renderer = "generate_html"
    /\ stdout # <<>>

\* the words of the notes heading, as either renderer writes them
NotesHeadings == {"Notes from supplier", "**Notes from supplier**"}

\* C9: in either document a notes block is present exactly when the record's
\* notes are non-empty, and then it holds exactly the notes text; with empty
\* notes the words "Notes from supplier" appear nowhere.
C9_NotesConditional ==
    Rendered =>
        LET notes == NotesOf(output, args.format)
        IN  IF product.notes.s # <<>>
            THEN notes = <<product.notes.s>> /\ Tokens(output) \cap NotesHeadings # {}
            ELSE notes = <<>> /\ Tokens(output) \cap NotesHeadings = {}

C9_Witness ==
    /\ Rendered
    /\ args.format = "markdown"
    /\ Has(payload, "notes")
    /\ Lookup(payload, "notes") = PyStr(<<" ", "a">>)
    /\ MdNotesOf(output) = << <<"a">> >>

Texts(items) == [i \in 1..Len(items) |-> items[i].s]

\* C10: each placeholder stands in exactly when its own field is empty: the
\* heading is "Product Title" iff the title is empty, the highlights are the
\* single item "Please see item specifics." iff there are no features, the
\* package list is the single item "1 x Item as described" iff there are no
\* package contents; the record of {} shows all three, no row and no notes.
C10_Placeholders ==
    Rendered =>
        LET title == TitleOf(output, args.format)
            features == FeaturesOf(output, args.format)
            package == PackageOf(output, args.format)
        IN  /\ title = IF product.title.s = <<>> THEN << <<"Product Title">> >>
                       ELSE <<product.title.s>>
            /\ features = IF product.features.items = <<>>
                          THEN << <<"Please see item specifics.">> >>
                          ELSE Texts(product.features.items)
            /\ package = IF product.package_contents.items = <<>>
                         THEN << <<"1 x Item as described">> >>
                         ELSE Texts(product.package_contents.items)
            /\ (title = << <<"Product Title">> >>) <=> (product.title.s = <<>>)
            /\ (features = << <<"Please see item specifics.">> >>)
                  <=> (product.features.items = <<>>)
            /\ (package = << <<"1 x Item as described">> >>)
                  <=> (product.package_contents.items = <<>>)
            /\ payload = PyDict(<<>>) =>
                  Read(output, args.format) =
                      [title |-> << <<"Product Title">> >>,
                       features |-> << <<"Please see item specifics.">> >>,
                       package |-> << <<"1 x Item as described">> >>,
                       rows |-> <<>>,
                       notes |-> <<>>]

C10_Witness ==
    /\ Rendered
    /\ args.format = "html"
    /\ product.title.s = <<>>
    /\ product.features.items # <<>>
    /\ product.package_contents.items = <<>>
    /\ HtmlTitleOf(output) = << <<"Product Title">> >>

====
